---- MODULE Spec2Model ----
(***************************************************************************)
(* Model of Translate_Final.py: a Streamlit script that converts an        *)
(* uploaded PDF to Markdown and translates it through DeepL or o3-mini.    *)
(*                                                                         *)
(* A Streamlit script is executed from its first line to its last on every *)
(* user event.  What survives from one run to the next is st.session_state *)
(* and the values of the widgets that the run rendered.  Script below is   *)
(* one such run; every user event is one action that changes a widget and  *)
(* executes Script; a run that ends in st.rerun() is followed by Rerun.     *)
(*                                                                         *)
(* Text is a sequence of one-character strings, so that str.strip(), the   *)
(* f-strings and "\n\n".join are computed and not assumed.                  *)
(***************************************************************************)
EXTENDS Integers, Sequences, FiniteSets, TLC

\* ------------------------------------------------------------------ bounds
\* longest text typed into a key field
MaxKeyLen == 1
\* most pages of a PDF handed to pdf_to_markdown in ExtractSpec
MaxPages == 2
\* longest text of one page in ExtractSpec
MaxTextLen == 2
\* how many entries of the target selectbox the user picks from
MaxLang == 3
\* the history counter of identical translate requests saturates here
MaxRepeat == 1

\* ------------------------------------------------------------ Python values
\* Python's None, distinct from every text
None == <<"None">>

\* truth value of an Optional[str]: None and "" are falsy
Truthy(v) == v # None /\ v # <<>>

\* the characters str.strip() removes that occur in the model
IsSpace(c) == c \in {" ", "\n", "\t"}

RECURSIVE lstrip(_)
lstrip(s) ==
    IF s = <<>> THEN <<>>
    ELSE IF IsSpace(Head(s)) THEN lstrip(Tail(s)) ELSE s

RECURSIVE rstrip(_)
rstrip(s) ==
    IF s = <<>> THEN <<>>
    ELSE IF IsSpace(s[Len(s)]) THEN rstrip(SubSeq(s, 1, Len(s) - 1)) ELSE s

\* str.strip()
strip(s) == rstrip(lstrip(s))

Digits == <<"0", "1", "2", "3", "4", "5", "6", "7", "8", "9">>

\* str(i) of a natural number, as the f-string formats {i}
RECURSIVE str(_)
str(i) ==
    IF i < 10 THEN <<Digits[i + 1]>>
    ELSE str(i \div 10) \o <<Digits[(i % 10) + 1]>>

\* sep.join(parts)
RECURSIVE join(_, _)
join(sep, parts) ==
    IF parts = <<>> THEN <<>>
    ELSE IF Len(parts) = 1 THEN parts[1]
    ELSE parts[1] \o sep \o join(sep, Tail(parts))

\* all sequences over S of length at most n
SeqsUpTo(S, n) == UNION {[1..k -> S] : k \in 0..n}

\* ------------------------------------------------------------ the variables
VARIABLES
    session_state,          \* st.session_state: key -> value
    widgets,                \* values of the input widgets, kept by Streamlit
    page,                   \* what the last run put on the page
    net,                    \* outbound provider calls of the last run
    resp,                   \* what the provider answered in the last run
    pc,                     \* "idle", or "rerun" after st.rerun()
    event,                  \* the user event that started the last run
    repeats,                \* history: identical translate requests in a row
    reruns,                 \* history: runs asked for by st.rerun() since the
                            \* last user event, counted modulo 2
    PDFPLUMBER_AVAILABLE,   \* _PDFPLUMBER_AVAILABLE, fixed at import
    OPENAI_AVAILABLE,       \* _OPENAI_AVAILABLE, fixed at import
    pdf_in,                 \* ExtractSpec: the document given to the extractor
    md_out                  \* ExtractSpec: what pdf_to_markdown returned

vars == <<session_state, widgets, page, net, resp, pc, event, repeats, reruns,
          PDFPLUMBER_AVAILABLE, OPENAI_AVAILABLE, pdf_in, md_out>>

\* ------------------------------------------------------- display elements
\* one st.success / st.info / st.warning / st.error / st.markdown call
El(kind, msg) ==
    [kind |-> kind, msg |-> msg, text |-> <<>>, status |-> 0, body |-> ""]

ElText(kind, msg, text) ==
    [kind |-> kind, msg |-> msg, text |-> text, status |-> 0, body |-> ""]

ElStatus(kind, msg, status, body) ==
    [kind |-> kind, msg |-> msg, text |-> <<>>, status |-> status, body |-> body]

\* --------------------------------------------------------- PDF -> Markdown
\* A PDF as pdfplumber sees it: whether it parses, and for each page what
\* extract_text() returns (a text, or None for a page without text).
Pdf(parses, pages) == [parses |-> parses, pages |-> pages]

\* f"## Page {i}\n\n{text.strip()}" with text = p.extract_text() or ""
page_md_keep_spaces(i, extracted) ==
    LET text == IF Truthy(extracted) THEN extracted ELSE <<>>
    IN  <<"#", "#", " ", "P", "a", "g", "e", " ">> \o str(i) \o <<"\n", "\n">> \o text

page_md(i, extracted) ==
    LET text == IF Truthy(extracted) THEN extracted ELSE <<>>
    IN  <<"#", "#", " ", "P", "a", "g", "e", " ">> \o str(i) \o <<"\n", "\n">>
            \o strip(text)

\* the loop over enumerate(pdf.pages, 1)
pages_md(pages) == [i \in 1..Len(pages) |-> page_md(i, pages[i])]

\* pdf_to_markdown: the Markdown, the st.error it shows, and the failure kind
pdf_to_markdown(pdf_bytes) ==
    IF ~PDFPLUMBER_AVAILABLE
    THEN [md |-> <<>>, shown |-> <<El("error", "pdfplumber import failed")>>,
          failure |-> "ParseUnavailable"]
    ELSE IF ~pdf_bytes.parses
    THEN [md |-> <<>>, shown |-> <<El("error", "PDF parsing failed")>>,
          failure |-> "ParseFailed"]
    ELSE [md |-> join(<<"\n", "\n">>, pages_md(pdf_bytes.pages)),
          shown |-> <<>>, failure |-> ""]

\* ------------------------------------------------------ language tables
\* DEEPL_SUPPORTED_LANGS: code -> display name
DEEPL_SUPPORTED_LANGS ==
    [BG |-> "Bulgarian", CS |-> "Czech", DA |-> "Danish", DE |-> "German",
     EL |-> "Greek", EN |-> "English", ES |-> "Spanish", ET |-> "Estonian",
     FI |-> "Finnish", FR |-> "French", HU |-> "Hungarian", ID |-> "Indonesian",
     IT |-> "Italian", JA |-> "Japanese", KO |-> "Korean", LT |-> "Lithuanian",
     LV |-> "Latvian", NB |-> "Norwegian (Bokmal)", NL |-> "Dutch",
     PL |-> "Polish", PT |-> "Portuguese", RO |-> "Romanian", RU |-> "Russian",
     SK |-> "Slovak", SL |-> "Slovenian", SV |-> "Swedish", TR |-> "Turkish",
     UK |-> "Ukrainian", ZH |-> "Chinese"]

\* LANG_NAME_TO_CODE = {v: k for k, v in DEEPL_SUPPORTED_LANGS.items()}
LANG_NAME_TO_CODE ==
    [name \in {DEEPL_SUPPORTED_LANGS[c] : c \in DOMAIN DEEPL_SUPPORTED_LANGS} |->
        CHOOSE c \in DOMAIN DEEPL_SUPPORTED_LANGS : DEEPL_SUPPORTED_LANGS[c] = name]

\* sorted(LANG_NAME_TO_CODE.keys()), in Python's string order
sorted_names ==
    <<"Bulgarian", "Chinese", "Czech", "Danish", "Dutch", "English", "Estonian",
      "Finnish", "French", "German", "Greek", "Hungarian", "Indonesian",
      "Italian", "Japanese", "Korean", "Latvian", "Lithuanian",
      "Norwegian (Bokmal)", "Polish", "Portuguese", "Romanian", "Russian",
      "Slovak", "Slovenian", "Spanish", "Swedish", "Turkish", "Ukrainian">>

\* langs = ["English"] + sorted(LANG_NAME_TO_CODE.keys())
langs == <<"English">> \o sorted_names

\* the options of the selectbox that the model's user picks from
Targets == {langs[i] : i \in 1..MaxLang}

\* ---------------------------------------------------- session and widgets
\* st.session_state before the first run of a session
EmptySession == [k \in {} |-> None]

\* st.session_state.get(k)
Get(ss, k) == IF k \in DOMAIN ss THEN ss[k] ELSE None

\* st.session_state[k] = v
Put(ss, k, v) == [x \in DOMAIN ss \cup {k} |-> IF x = k THEN v ELSE ss[x]]

\* for key in (...): st.session_state.setdefault(key, None)
SetDefaults(ss) ==
    [x \in DOMAIN ss \cup {"OPENAI_API_KEY", "DEEPL_API_KEY"} |->
        IF x \in DOMAIN ss THEN ss[x] ELSE None]

\* the widgets' values before the user touched them: empty text inputs,
\* radio index=0, no file, selectbox index=0
DefaultWidgets ==
    [okey |-> <<>>, dkey |-> <<>>, translation_provider |-> "o3-mini",
     uploaded_pdf |-> 0, target |-> langs[1]]

\* the documents the user of Spec uploads (uploaded_pdf = 0: no file):
\* unparseable bytes, a PDF without pages, one page, a page and an image page
SamplePdfs ==
    << Pdf(FALSE, <<>>),
       Pdf(TRUE, <<>>),
       Pdf(TRUE, << <<" ", "H", "i", "\n">> >>),
       Pdf(TRUE, << <<"H", "i">>, None >>) >>

\* the texts typed into a key field
KeyTexts == SeqsUpTo({"k", " "}, MaxKeyLen)

\* ------------------------------------------------------ provider answers
NoResponse ==
    [ok |-> FALSE, status_code |-> 0, text |-> "", is_json |-> FALSE,
     has_translations |-> FALSE, translations |-> <<>>, content |-> <<>>]

\* bodies of a DeepL answer: resp.text, and what resp.json() makes of it
Bodies ==
    { [text |-> "<html>", is_json |-> FALSE, has_translations |-> FALSE,
       translations |-> <<>>],
      [text |-> "{message}", is_json |-> TRUE, has_translations |-> FALSE,
       translations |-> <<>>],
      [text |-> "{translations:[]}", is_json |-> TRUE, has_translations |-> TRUE,
       translations |-> <<>>],
      [text |-> "{translations:[Bon]}", is_json |-> TRUE, has_translations |-> TRUE,
       translations |-> << <<"B", "o", "n">> >>],
      [text |-> "{translations:[ B__]}", is_json |-> TRUE, has_translations |-> TRUE,
       translations |-> << <<" ", "B", "\n", "\n">> >>],
      [text |-> "{translations:[ B__,Bon]}", is_json |-> TRUE,
       has_translations |-> TRUE,
       translations |-> << <<" ", "B", "\n", "\n">>, <<"B", "o", "n">> >>] }

\* requests.post raises (ok = FALSE) or returns a status and a body
DeepLResponses ==
    {NoResponse} \cup
    { [ok |-> TRUE, status_code |-> s, text |-> b.text, is_json |-> b.is_json,
       has_translations |-> b.has_translations, translations |-> b.translations,
       content |-> <<>>] : s \in {200, 403}, b \in Bodies }

\* chat.completions.create raises (ok = FALSE) or returns a message whose
\* content is a text or None (None.strip() raises inside the try)
O3Responses ==
    {NoResponse} \cup
    { [NoResponse EXCEPT !.ok = TRUE, !.content = c] :
        c \in { <<"B", "o", "n">>, <<" ", "B", "\n">>, None } }

Responses(provider) == IF provider = "DeepL" THEN DeepLResponses ELSE O3Responses

\* ------------------------------------------------------------- one run
\* the result of a run so far: session state, page, calls, and how it ended
Start(ss) ==
    [ss |-> ss, out |-> <<>>, rendered |-> {}, net |-> <<>>, rerun |-> FALSE,
     uncaught |-> FALSE, extractions |-> 0]

Show(r, el) == [r EXCEPT !.out = Append(@, el)]

Render(r, widget) == [r EXCEPT !.rendered = @ \cup {widget}]

\* sidebar, 1 - OpenAI
SidebarOpenAI(r, w, clicked) ==
    IF ~Truthy(r.ss.OPENAI_API_KEY)
    THEN LET r1 == Render(r, "okey")
         IN  IF w.okey # <<>>
             THEN [Show(r1, El("success", "OpenAI key saved - reloading."))
                     EXCEPT !.ss = Put(r.ss, "OPENAI_API_KEY", strip(w.okey)),
                            !.rerun = TRUE]
             ELSE r1
    ELSE LET r1 == Render(Show(r, El("success", "OpenAI key ok")), "Reset OpenAI Key")
         IN  IF clicked = "Reset OpenAI Key"
             THEN [r1 EXCEPT !.ss = Put(r.ss, "OPENAI_API_KEY", None), !.rerun = TRUE]
             ELSE r1

\* sidebar, 2 - DeepL (saving the key does not call st.rerun())
SidebarDeepL(r, w, clicked) ==
    IF ~Truthy(r.ss.DEEPL_API_KEY)
    THEN LET r1 == Render(r, "dkey")
         IN  IF w.dkey # <<>>
             THEN [Show(r1, El("success", "DeepL key saved."))
                     EXCEPT !.ss = Put(r.ss, "DEEPL_API_KEY", strip(w.dkey))]
             ELSE r1
    ELSE LET r1 == Render(Show(r, El("success", "DeepL key ok")), "Reset DeepL Key")
         IN  IF clicked = "Reset DeepL Key"
             THEN [r1 EXCEPT !.ss = Put(r.ss, "DEEPL_API_KEY", None), !.rerun = TRUE]
             ELSE r1

\* the provider radio and the two notices under it
SidebarProvider(r) ==
    Show(Show(Render(r, "translation_provider"),
              El("info", "PDF -> Markdown -> Translate")),
         El("warning", "AI output may contain errors. Verify critical data."))

\* openai_client is not None
openai_client(ss) == OPENAI_AVAILABLE /\ Truthy(ss.OPENAI_API_KEY)

\* the upload control, the note field and the convert button
MainLayout(r) ==
    Render(Render(Render(r, "uploaded_pdf"), "user_prompt"), "Convert to Markdown")

\* ConvertSection without the check for a file: the extractor runs on empty
\* bytes and its result is stored
ConvertSection_no_file_guard(r, w, clicked) ==
    IF clicked # "Convert to Markdown" THEN r
    ELSE LET res == pdf_to_markdown(IF w.uploaded_pdf = 0 THEN Pdf(FALSE, <<>>)
                                    ELSE SamplePdfs[w.uploaded_pdf])
             r1  == [r EXCEPT !.out = @ \o res.shown, !.extractions = @ + 1]
             r2  == Show(r1, IF res.md # <<>>
                             THEN ElText("markdown", "Resulting Markdown", res.md)
                             ELSE El("markdown", "*No output*"))
         IN  [r2 EXCEPT !.ss = Put(r.ss, "analysis_result", res.md)]

\* if analyze_button: ... st.session_state["analysis_result"] = analysis_result
ConvertSection(r, w, clicked) ==
    IF clicked # "Convert to Markdown" THEN r
    ELSE IF w.uploaded_pdf = 0
    THEN Show(r, El("warning", "Please upload a PDF first."))
    ELSE LET res == pdf_to_markdown(SamplePdfs[w.uploaded_pdf])
             r1  == [r EXCEPT !.out = @ \o res.shown, !.extractions = @ + 1]
             r2  == Show(r1, IF res.md # <<>>
                             THEN ElText("markdown", "Resulting Markdown", res.md)
                             ELSE El("markdown", "*No output*"))
         IN  [r2 EXCEPT !.ss = Put(r.ss, "analysis_result", res.md)]

\* DeepLBranch, but a failed translation clears the stored Markdown
DeepLBranch_discards_markdown(r, w, rsp) ==
    LET call == [api |-> "deepl", auth_key |-> r.ss.DEEPL_API_KEY,
                 text |-> r.ss.analysis_result,
                 target |-> LANG_NAME_TO_CODE[w.target]]
        r0   == [r EXCEPT !.net = Append(@, call)]
        r1   == IF rsp.ok /\ rsp.status_code = 200 THEN r0
                ELSE [r0 EXCEPT !.ss = Put(r.ss, "analysis_result", <<>>)]
    IN  IF ~rsp.ok
        THEN Show(r1, El("error", "DeepL request failed"))
        ELSE IF rsp.status_code = 200
        THEN IF rsp.is_json /\ rsp.has_translations /\ Len(rsp.translations) >= 1
             THEN Show(Show(r1, ElText("markdown", "Translated", <<>>)),
                       ElText("translation", w.target, rsp.translations[1]))
             ELSE Show(r1, El("error", "DeepL request failed"))
        ELSE Show(r1, ElStatus("error", "DeepL error", rsp.status_code, rsp.text))

\* DeepLBranch, but the translation is trimmed like the o3-mini answer
DeepLBranch_trims(r, w, rsp) ==
    LET call == [api |-> "deepl", auth_key |-> r.ss.DEEPL_API_KEY,
                 text |-> r.ss.analysis_result,
                 target |-> LANG_NAME_TO_CODE[w.target]]
        r1   == [r EXCEPT !.net = Append(@, call)]
    IN  IF ~rsp.ok
        THEN Show(r1, El("error", "DeepL request failed"))
        ELSE IF rsp.status_code = 200
        THEN IF rsp.is_json /\ rsp.has_translations /\ Len(rsp.translations) >= 1
             THEN Show(Show(r1, ElText("markdown", "Translated", <<>>)),
                       ElText("translation", w.target, strip(rsp.translations[1])))
             ELSE Show(r1, El("error", "DeepL request failed"))
        ELSE Show(r1, ElStatus("error", "DeepL error", rsp.status_code, rsp.text))

\* DeepLBranch, but the translation is kept in st.session_state
DeepLBranch_persists(r, w, rsp) ==
    LET call == [api |-> "deepl", auth_key |-> r.ss.DEEPL_API_KEY,
                 text |-> r.ss.analysis_result,
                 target |-> LANG_NAME_TO_CODE[w.target]]
        r1   == [r EXCEPT !.net = Append(@, call)]
    IN  IF ~rsp.ok
        THEN Show(r1, El("error", "DeepL request failed"))
        ELSE IF rsp.status_code = 200
        THEN IF rsp.is_json /\ rsp.has_translations /\ Len(rsp.translations) >= 1
             THEN [Show(Show(r1, ElText("markdown", "Translated", <<>>)),
                        ElText("translation", w.target, rsp.translations[1]))
                     EXCEPT !.ss = Put(r.ss, "translation", rsp.translations[1])]
             ELSE Show(r1, El("error", "DeepL request failed"))
        ELSE Show(r1, ElStatus("error", "DeepL error", rsp.status_code, rsp.text))

\* the DeepL branch of the handler of "Translate Markdown"
DeepLBranch(r, w, rsp) ==
    LET call == [api |-> "deepl", auth_key |-> r.ss.DEEPL_API_KEY,
                 text |-> r.ss.analysis_result,
                 target |-> LANG_NAME_TO_CODE[w.target]]
        r1   == [r EXCEPT !.net = Append(@, call)]
    IN  IF ~rsp.ok
        THEN Show(r1, El("error", "DeepL request failed"))
        ELSE IF rsp.status_code = 200
        THEN IF rsp.is_json /\ rsp.has_translations /\ Len(rsp.translations) >= 1
             THEN Show(Show(r1, ElText("markdown", "Translated", <<>>)),
                       ElText("translation", w.target, rsp.translations[1]))
             ELSE Show(r1, El("error", "DeepL request failed"))
        ELSE Show(r1, ElStatus("error", "DeepL error", rsp.status_code, rsp.text))

\* O3Branch, but a failed call is tried a second time
O3Branch_retries(r, w, rsp) ==
    IF ~openai_client(r.ss)
    THEN Show(r, El("error", "o3-mini translation error"))
    ELSE LET call == [api |-> "o3-mini", auth_key |-> r.ss.OPENAI_API_KEY,
                      text |-> r.ss.analysis_result, target |-> w.target]
             r1   == [r EXCEPT !.net = IF rsp.ok THEN Append(@, call)
                                          ELSE Append(Append(@, call), call)]
         IN  IF ~rsp.ok \/ rsp.content = None
             THEN Show(r1, El("error", "o3-mini translation error"))
             ELSE Show(Show(r1, ElText("markdown", "Translated", <<>>)),
                       ElText("translation", w.target, strip(rsp.content)))

\* the o3-mini branch: openai_client is None raises inside the try
O3Branch(r, w, rsp) ==
    IF ~openai_client(r.ss)
    THEN Show(r, El("error", "o3-mini translation error"))
    ELSE LET call == [api |-> "o3-mini", auth_key |-> r.ss.OPENAI_API_KEY,
                      text |-> r.ss.analysis_result, target |-> w.target]
             r1   == [r EXCEPT !.net = Append(@, call)]
         IN  IF ~rsp.ok \/ rsp.content = None
             THEN Show(r1, El("error", "o3-mini translation error"))
             ELSE Show(Show(r1, ElText("markdown", "Translated", <<>>)),
                       ElText("translation", w.target, strip(rsp.content)))

\* the two credential warnings above the translate button
CredentialWarnings(r, w) ==
    LET r1 == IF w.translation_provider = "o3-mini" /\ ~openai_client(r.ss)
              THEN Show(r, El("warning", "Add OpenAI key to use o3-mini translation."))
              ELSE r
    IN  IF w.translation_provider = "DeepL" /\ ~Truthy(r1.ss.DEEPL_API_KEY)
        THEN Show(r1, El("warning", "Add DeepL key for translation."))
        ELSE r1

\* TranslationSection without the branch for the target "English"
TranslationSection_no_english_branch(r, w, clicked, rsp) ==
    IF ~Truthy(Get(r.ss, "analysis_result"))
    THEN Show(r, El("info", "Run analysis/conversion first."))
    ELSE LET r1 == Render(r, "target")
         IN  IF FALSE
             THEN Show(r1, El("info", "Already in English - no translation needed."))
             ELSE LET r2 == Render(CredentialWarnings(r1, w), "Translate Markdown")
                  IN  IF clicked # "Translate Markdown" THEN r2
                      ELSE IF w.translation_provider = "DeepL"
                      THEN DeepLBranch(r2, w, rsp)
                      ELSE O3Branch(r2, w, rsp)

\* with translation_container: ...
TranslationSection(r, w, clicked, rsp) ==
    IF ~Truthy(Get(r.ss, "analysis_result"))
    THEN Show(r, El("info", "Run analysis/conversion first."))
    ELSE LET r1 == Render(r, "target")
         IN  IF w.target = "English"
             THEN Show(r1, El("info", "Already in English - no translation needed."))
             ELSE LET r2 == Render(CredentialWarnings(r1, w), "Translate Markdown")
                  IN  IF clicked # "Translate Markdown" THEN r2
                      ELSE IF w.translation_provider = "DeepL"
                      THEN DeepLBranch(r2, w, rsp)
                      ELSE O3Branch(r2, w, rsp)

\* One run of the script, top to bottom: each section continues from the
\* result of the one before it.  st.rerun() ends the run where it is called:
\* the sections after it are not executed in that run.
Script(ss, w, clicked, rsp) ==
    LET s1 == {SidebarOpenAI(r, w, clicked) : r \in {Start(SetDefaults(ss))}}
        s2 == {IF r.rerun THEN r ELSE SidebarDeepL(r, w, clicked) : r \in s1}
        s3 == {IF r.rerun THEN r ELSE MainLayout(SidebarProvider(r)) : r \in s2}
        s4 == {IF r.rerun THEN r ELSE ConvertSection(r, w, clicked) : r \in s3}
        s5 == {IF r.rerun THEN r ELSE TranslationSection(r, w, clicked, rsp) : r \in s4}
    IN  CHOOSE r \in s5 : TRUE

\* Streamlit forgets the value of a widget that a finished run did not
\* render: the widget starts from its default when it is rendered again.
Cleanup(w, rendered) ==
    [x \in DOMAIN w |-> IF x \in rendered THEN w[x] ELSE DefaultWidgets[x]]

\* The widget values after a run.  Whether a run cut short by st.rerun()
\* also forgets the widgets it did not reach is Streamlit's business, not
\* the script's: both outcomes are allowed.
AfterRun(w, r) ==
    IF r.rerun THEN {Cleanup(w, r.rendered), w} ELSE {Cleanup(w, r.rendered)}

PageOf(r) ==
    [out |-> r.out, rendered |-> r.rendered, uncaught |-> r.uncaught,
     extractions |-> r.extractions]

\* a run of the script on widget values w with button `clicked` pressed
Run(w, clicked, rsp) ==
    \E r \in {Script(session_state, w, clicked, rsp)} :
        /\ session_state' = r.ss
        /\ widgets' \in AfterRun(w, r)
        /\ page' = PageOf(r)
        /\ net' = r.net
        /\ resp' = IF r.net # <<>> THEN rsp ELSE NoResponse
        /\ pc' = IF r.rerun THEN "rerun" ELSE "idle"
        /\ UNCHANGED <<PDFPLUMBER_AVAILABLE, OPENAI_AVAILABLE, pdf_in, md_out>>

\* ------------------------------------------------------------ user events
\* the user edits the OpenAI key field
EnterOpenAIKey ==
    /\ pc = "idle" /\ "okey" \in page.rendered
    /\ \E s \in KeyTexts :
        /\ s # widgets.okey
        /\ Run([widgets EXCEPT !.okey = s], "", NoResponse)
    /\ event' = "enter_openai_key" /\ repeats' = 0 /\ reruns' = 0

\* the user edits the DeepL key field
EnterDeepLKey ==
    /\ pc = "idle" /\ "dkey" \in page.rendered
    /\ \E s \in KeyTexts :
        /\ s # widgets.dkey
        /\ Run([widgets EXCEPT !.dkey = s], "", NoResponse)
    /\ event' = "enter_deepl_key" /\ repeats' = 0 /\ reruns' = 0

ResetOpenAIKey ==
    /\ pc = "idle" /\ "Reset OpenAI Key" \in page.rendered
    /\ Run(widgets, "Reset OpenAI Key", NoResponse)
    /\ event' = "reset_openai_key" /\ repeats' = 0 /\ reruns' = 0

ResetDeepLKey ==
    /\ pc = "idle" /\ "Reset DeepL Key" \in page.rendered
    /\ Run(widgets, "Reset DeepL Key", NoResponse)
    /\ event' = "reset_deepl_key" /\ repeats' = 0 /\ reruns' = 0

SelectProvider ==
    /\ pc = "idle" /\ "translation_provider" \in page.rendered
    /\ \E p \in {"o3-mini", "DeepL"} :
        /\ p # widgets.translation_provider
        /\ Run([widgets EXCEPT !.translation_provider = p], "", NoResponse)
    /\ event' = "select_provider" /\ repeats' = 0 /\ reruns' = 0

\* the user uploads, replaces or removes the file
Upload ==
    /\ pc = "idle" /\ "uploaded_pdf" \in page.rendered
    /\ \E f \in 0..Len(SamplePdfs) :
        /\ f # widgets.uploaded_pdf
        /\ Run([widgets EXCEPT !.uploaded_pdf = f], "", NoResponse)
    /\ event' = "upload" /\ repeats' = 0 /\ reruns' = 0

Convert ==
    /\ pc = "idle" /\ "Convert to Markdown" \in page.rendered
    /\ Run(widgets, "Convert to Markdown", NoResponse)
    /\ event' = "convert" /\ repeats' = 0 /\ reruns' = 0

SelectTarget ==
    /\ pc = "idle" /\ "target" \in page.rendered
    /\ \E t \in Targets :
        /\ t # widgets.target
        /\ Run([widgets EXCEPT !.target = t], "", NoResponse)
    /\ event' = "select_target" /\ repeats' = 0 /\ reruns' = 0

\* the user presses "Translate Markdown"; the provider answers rsp
Translate ==
    /\ pc = "idle" /\ "Translate Markdown" \in page.rendered
    /\ \E rsp \in Responses(widgets.translation_provider) :
        Run(widgets, "Translate Markdown", rsp)
    /\ event' = "translate"
    /\ repeats' = IF event = "translate"
                  THEN (IF repeats < MaxRepeat THEN repeats + 1 ELSE repeats)
                  ELSE 0
    /\ reruns' = 0

\* the run that st.rerun() asked for: no button is pressed in it
Rerun ==
    /\ pc = "rerun"
    /\ Run(widgets, "", NoResponse)
    /\ reruns' = (reruns + 1) % 2
    /\ UNCHANGED <<event, repeats>>

\* ------------------------------------------------------- specifications
\* the page after the first run of a new session
MainInit ==
    \E r \in {Script(EmptySession, DefaultWidgets, "", NoResponse)} :
        /\ session_state = r.ss
        /\ widgets = Cleanup(DefaultWidgets, r.rendered)
        /\ page = PageOf(r)
        /\ net = r.net
        /\ resp = NoResponse
        /\ pc = "idle"
        /\ event = "open"
        /\ repeats = 0
        /\ reruns = 0
        /\ PDFPLUMBER_AVAILABLE \in BOOLEAN
        /\ OPENAI_AVAILABLE \in BOOLEAN

Init == MainInit /\ pdf_in = Pdf(TRUE, <<>>) /\ md_out = None

Next ==
    \/ EnterOpenAIKey
    \/ EnterDeepLKey
    \/ ResetOpenAIKey
    \/ ResetDeepLKey
    \/ SelectProvider
    \/ Upload
    \/ Convert
    \/ SelectTarget
    \/ Translate
    \/ Rerun

Spec == Init /\ [][Next]_vars

\* st.rerun() starts the next run at once: a requested rerun is not delayed
\* forever
FairSpec == Spec /\ WF_vars(Rerun)

\* --------------------------------------- the extractor as a pure function
\* what extract_text() returns for a page: a text, or None
PageTexts == SeqsUpTo({"a", " ", "\n"}, MaxTextLen) \cup {None}

\* every document of at most MaxPages pages, and an unparseable one
AllPdfs == {Pdf(FALSE, <<>>)} \cup {Pdf(TRUE, pages) : pages \in SeqsUpTo(PageTexts, MaxPages)}

ExtractInit == MainInit /\ pdf_in \in AllPdfs /\ md_out = None

\* analysis_result = pdf_to_markdown(pdf_bytes)
Extract ==
    /\ md_out = None
    /\ md_out' = pdf_to_markdown(pdf_in).md
    /\ UNCHANGED <<session_state, widgets, page, net, resp, pc, event, repeats,
                   reruns, PDFPLUMBER_AVAILABLE, OPENAI_AVAILABLE, pdf_in>>

ExtractSpec == ExtractInit /\ [][Extract]_vars

\* ===================================================================== claims
\* what the page of the last run shows
ShownIn(pg, kind, msg) ==
    \E i \in DOMAIN pg.out : pg.out[i].kind = kind /\ pg.out[i].msg = msg

Translations == {i \in DOMAIN page.out : page.out[i].kind = "translation"}

Errors == {i \in DOMAIN page.out : page.out[i].kind = "error"}

HasMarkdown == Truthy(Get(session_state, "analysis_result"))

OpenAISet == Truthy(session_state.OPENAI_API_KEY)

DeepLSet == Truthy(session_state.DEEPL_API_KEY)

\* the credential of the selected provider is unset
CredentialUnset ==
    \/ widgets.translation_provider = "DeepL" /\ ~DeepLSet
    \/ widgets.translation_provider = "o3-mini" /\ ~openai_client(session_state)

\* ----------------------------------------------------------------- C6
\* The expected layout of the extractor's output, stated by positions and
\* not by the loop and the join of the code.
NonSpace(t) == {k \in 1..Len(t) : ~IsSpace(t[k])}

\* t without the whitespace before its first and after its last other character
Trimmed(t) ==
    IF NonSpace(t) = {} THEN <<>>
    ELSE LET first == CHOOSE k \in NonSpace(t) : \A j \in NonSpace(t) : k <= j
             last  == CHOOSE k \in NonSpace(t) : \A j \in NonSpace(t) : j <= k
         IN  [k \in 1..(last - first + 1) |-> t[first + k - 1]]

\* "## Page i", a blank line, the trimmed text of page i (i < 10)
ExpectedBlock(pages, i) ==
    <<"#", "#", " ", "P", "a", "g", "e", " ", Digits[i + 1], "\n", "\n">>
        \o Trimmed(IF pages[i] = None THEN <<>> ELSE pages[i])

\* the position of the first character of block i in the output
RECURSIVE BlockStart(_, _)
BlockStart(pages, i) ==
    IF i = 1 THEN 1
    ELSE BlockStart(pages, i - 1) + Len(ExpectedBlock(pages, i - 1)) + 2

\* C6: for n page texts, each possibly empty or missing, pdf_to_markdown
\* returns exactly n blocks in page order, separated by a blank line, block i
\* being "## Page i", a blank line and the trimmed text; a page without text
\* keeps its heading, and no page is dropped, merged or reordered.
C6_BlocksInPageOrder ==
    (md_out # None /\ PDFPLUMBER_AVAILABLE /\ pdf_in.parses) =>
        LET pages == pdf_in.pages
            n     == Len(pages)
        IN  /\ Len(md_out) =
                 IF n = 0 THEN 0
                 ELSE BlockStart(pages, n) + Len(ExpectedBlock(pages, n)) - 1
            /\ \A i \in 1..n :
                 LET b == ExpectedBlock(pages, i)
                     at == BlockStart(pages, i)
                 IN  /\ \A k \in 1..Len(b) : md_out[at + k - 1] = b[k]
                     /\ i < n => /\ md_out[at + Len(b)] = "\n"
                                 /\ md_out[at + Len(b) + 1] = "\n"

\* a two-page document whose first page has no text and whose second page
\* has text to trim has been extracted
C6_Witness ==
    /\ md_out # None /\ PDFPLUMBER_AVAILABLE /\ pdf_in.parses
    /\ Len(pdf_in.pages) = 2
    /\ pdf_in.pages[1] = None
    /\ pdf_in.pages[2] = <<" ", "a">>
    /\ md_out = <<"#", "#", " ", "P", "a", "g", "e", " ", "1", "\n", "\n", "\n", "\n",
                  "#", "#", " ", "P", "a", "g", "e", " ", "2", "\n", "\n", "a">>

\* ----------------------------------------------------------------- C1
\* C1: a translate action taken while the credential of the selected
\* provider is unset is blocked: it reports a warning, performs no action
\* and issues no outbound network call.
C1_MissingCredentialBlocks ==
    (event = "translate" /\ CredentialUnset) =>
        /\ net = <<>>
        /\ \E i \in DOMAIN page.out : page.out[i].kind = "warning"
                                      /\ page.out[i].msg # "AI output may contain errors. Verify critical data."
        /\ Translations = {}

\* ----------------------------------------------------------------- C2
\* C2: once the session holds a non-empty Markdown document, no convert or
\* translate action (nor any other) takes it back to Idle: the document
\* stays non-empty and the translation controls stay on the page.
C2_NeverBackToIdle ==
    [][HasMarkdown => (HasMarkdown' /\ (pc' = "idle" => "target" \in page'.rendered))]_vars

\* ----------------------------------------------------------------- C3
\* the extractor reported ParseUnavailable or ParseFailed in this run
ConvertFailedIn(pg) ==
    \/ ShownIn(pg, "error", "pdfplumber import failed")
    \/ ShownIn(pg, "error", "PDF parsing failed")

\* C3: a translate action that fails leaves the stored Markdown document
\* unchanged, and a convert action that fails leaves both credentials
\* unchanged.
C3_PartialResultsPreserved ==
    [][ /\ (pc = "idle" /\ event' = "translate"
              /\ \E i \in DOMAIN page'.out : page'.out[i].kind = "error")
           => /\ "analysis_result" \in DOMAIN session_state'
              /\ session_state'.analysis_result = Get(session_state, "analysis_result")
        /\ (pc = "idle" /\ event' = "convert" /\ ConvertFailedIn(page'))
           => /\ session_state'.OPENAI_API_KEY = session_state.OPENAI_API_KEY
              /\ session_state'.DEEPL_API_KEY = session_state.DEEPL_API_KEY
      ]_vars

\* a DeepL translation was refused with 403 and the Markdown is still there
C3_Witness ==
    /\ event = "translate"
    /\ resp.ok /\ resp.status_code = 403
    /\ Errors # {}
    /\ HasMarkdown

\* ----------------------------------------------------------------- C4
\* C4: whenever the selected target language is "English" no outbound call
\* is made, whatever the provider, the credentials and the stored Markdown;
\* the page shows the "no translation needed" note and offers no translate
\* button.
C4_EnglishIsNoOp ==
    ("target" \in page.rendered /\ widgets.target = "English") =>
        /\ net = <<>>
        /\ ShownIn(page, "info", "Already in English - no translation needed.")
        /\ "Translate Markdown" \notin page.rendered
        /\ Translations = {}
        /\ Errors = {}

\* the user went back to English with DeepL selected and no DeepL key
C4_Witness ==
    /\ event = "select_target"
    /\ "target" \in page.rendered /\ widgets.target = "English"
    /\ widgets.translation_provider = "DeepL" /\ ~DeepLSet
    /\ HasMarkdown

\* ----------------------------------------------------------------- C5
\* a key, as opposed to a blank entry: a text with a character that is not
\* whitespace
IsKey(t) == \E k \in 1..Len(t) : ~IsSpace(t[k])

\* C5: each credential goes Unset -> Set -> Unset on its own: entering a key
\* while Unset makes it Set, a Set credential becomes Unset only by its own
\* reset, entering or resetting one credential never changes the other, and
\* the reruns that a key entry or a reset causes terminate.
C5_CredentialMachines ==
    /\ [][ /\ (pc = "idle" /\ event' = "enter_openai_key" /\ IsKey(widgets'.okey))
                => OpenAISet'
           /\ (pc = "idle" /\ event' = "enter_deepl_key" /\ IsKey(widgets'.dkey))
                => DeepLSet'
           /\ (OpenAISet /\ ~OpenAISet') => event' = "reset_openai_key"
           /\ (DeepLSet /\ ~DeepLSet') => event' = "reset_deepl_key"
           /\ event' \in {"enter_openai_key", "reset_openai_key"} => (DeepLSet' <=> DeepLSet)
           /\ event' \in {"enter_deepl_key", "reset_deepl_key"} => (OpenAISet' <=> OpenAISet)
         ]_vars
    /\ (pc = "rerun" ~> pc = "idle")

\* ----------------------------------------------------------------- C7
\* the last run handled "Translate Markdown" with the provider DeepL
DeepLRun == event = "translate" /\ widgets.translation_provider = "DeepL"

\* the body of the answer holds a first translation
HasFirstTranslation ==
    resp.is_json /\ resp.has_translations /\ Len(resp.translations) >= 1

\* C7 as claimed: on the DeepL path HTTP 200 shows the first translation's
\* text verbatim, a status other than 200 shows an error with the status
\* and the body and no translation, a network failure shows an error and no
\* translation, and no failure leaves the action.
C7_DeepLOutcome ==
    DeepLRun =>
        /\ ~page.uncaught
        /\ (resp.ok /\ resp.status_code = 200) =>
             /\ Translations # {}
             /\ \A i \in Translations :
                  /\ Len(resp.translations) >= 1
                  /\ page.out[i].text = resp.translations[1]
        /\ (resp.ok /\ resp.status_code # 200) =>
             /\ Translations = {}
             /\ \E i \in Errors : /\ page.out[i].status = resp.status_code
                                  /\ page.out[i].body = resp.text
        /\ ~resp.ok => (Translations = {} /\ Errors # {})

\* C7 as amended: HTTP 200 with a body that holds a first translation shows
\* that text verbatim; HTTP 200 with any other body shows the "request
\* failed" error and no translation; the other cases are as claimed.
C7_DeepLOutcomeAmended ==
    DeepLRun =>
        /\ ~page.uncaught
        /\ Len(net) = 1
        /\ (resp.ok /\ resp.status_code = 200 /\ HasFirstTranslation) =>
             /\ Errors = {}
             /\ Cardinality(Translations) = 1
             /\ \A i \in Translations : page.out[i].text = resp.translations[1]
        /\ (resp.ok /\ resp.status_code = 200 /\ ~HasFirstTranslation) =>
             /\ Translations = {}
             /\ ShownIn(page, "error", "DeepL request failed")
        /\ (resp.ok /\ resp.status_code # 200) =>
             /\ Translations = {}
             /\ \E i \in Errors : /\ page.out[i].status = resp.status_code
                                  /\ page.out[i].body = resp.text
        /\ ~resp.ok =>
             /\ Translations = {}
             /\ ShownIn(page, "error", "DeepL request failed")

\* DeepL answered 200 with a translation that has whitespace around it, and
\* the page shows it untrimmed
C7_Witness ==
    /\ DeepLRun
    /\ resp.ok /\ resp.status_code = 200 /\ HasFirstTranslation
    /\ resp.translations[1] = <<" ", "B", "\n", "\n">>
    /\ \E i \in Translations : page.out[i].text = <<" ", "B", "\n", "\n">>

\* ----------------------------------------------------------------- C8
\* C8: a translate action that passes its guards (Markdown present, target
\* not English, credential of the selected provider available) issues
\* exactly one provider call, also when the call fails and also when the
\* same request is repeated; no other action issues a call.
C8_OneCallPerTranslate ==
    /\ Len(net) <= 1
    /\ event # "translate" => net = <<>>
    /\ (event = "translate" /\ HasMarkdown /\ widgets.target # "English"
          /\ ~CredentialUnset) =>
         /\ Len(net) = 1
         /\ net[1].text = session_state.analysis_result
         /\ net[1].api = IF widgets.translation_provider = "DeepL"
                         THEN "deepl" ELSE "o3-mini"

\* the same request was made again after the guards passed, the call failed,
\* and exactly one call went out
C8_Witness ==
    /\ event = "translate" /\ repeats >= 1
    /\ ~CredentialUnset
    /\ widgets.translation_provider = "o3-mini"
    /\ Errors # {}
    /\ Len(net) = 1

\* ----------------------------------------------------------------- C9
\* C9: a convert action without an uploaded file shows a warning and does
\* nothing else: the extractor is not invoked and the session state is what
\* it was.
C9_ConvertWithoutFile ==
    [][ (pc = "idle" /\ event' = "convert" /\ widgets.uploaded_pdf = 0) =>
            /\ session_state' = session_state
            /\ page'.extractions = 0
            /\ ShownIn(page', "warning", "Please upload a PDF first.")
            /\ ~ConvertFailedIn(page')
            /\ net' = <<>>
      ]_vars

\* convert was pressed without a file while a Markdown document and a DeepL
\* key were stored, and both are still there
C9_Witness ==
    /\ event = "convert" /\ widgets.uploaded_pdf = 0
    /\ ShownIn(page, "warning", "Please upload a PDF first.")
    /\ HasMarkdown /\ DeepLSet

\* ---------------------------------------------------------------- C10
\* C10: the translation is not kept: session state holds the two keys and
\* the Markdown only, the page shows at most one translation, and it shows
\* one only in the run of the translate request itself, so that after any
\* other action no translation is shown while the Markdown is still stored.
C10_TranslationNotPersisted ==
    /\ DOMAIN session_state \subseteq {"OPENAI_API_KEY", "DEEPL_API_KEY", "analysis_result"}
    /\ Cardinality(Translations) <= 1
    /\ Translations # {} =>
         /\ event = "translate" /\ pc = "idle"
         /\ Len(net) = 1
         /\ HasMarkdown

\* a translate request was repeated and the page shows its one translation
C10_Witness ==
    /\ event = "translate" /\ repeats >= 1
    /\ Cardinality(Translations) = 1
    /\ HasMarkdown

====
